---- MODULE Spec2Model ----
(***************************************************************************)
(* A model of lukechampine/mjson (src/mjson.go): the non-validating JSON   *)
(* scanner, the accessor locator and the path rewriter behind Set,         *)
(* SetInPlace and SetRawInPlace.                                           *)
(*                                                                         *)
(* A byte buffer is a sequence of one-character strings.  Go offsets are   *)
(* 0-based, so Go's json[k] is json[k+1] here and Go's json[k:] is         *)
(* From(json, k).  A run-time panic (index or slice out of range) is the   *)
(* buffer Panic; a loop that never ends is the buffer Hang.  Neither can   *)
(* be confused with a document, whose elements are single characters.      *)
(***************************************************************************)
EXTENDS Integers, Sequences, FiniteSets, TLC

Panic == <<"PANIC">>
Hang == <<"HANG">>
IsErr(s) == s = Panic \/ s = Hang

\* Bind(e, F) is F(e) with e evaluated once, before F is: the bodies below name
\* every intermediate result this way, as the Go code does with a variable
Bind(e, F(_)) == CHOOSE r \in {F(x) : x \in {e}} : TRUE

Min(set) == Bind(set, LAMBDA S : CHOOSE x \in S : \A y \in S : x <= y)

Max(set) == Bind(set, LAMBDA S : CHOOSE x \in S : \A y \in S : y <= x)

\* Go: json[k:]
From(json, k) ==
  IF k < 0 \/ k > Len(json) THEN Panic ELSE SubSeq(json, k + 1, Len(json))

\* Go: json[k]
At(json, k) == IF k < 0 \/ k >= Len(json) THEN "PANIC" ELSE json[k + 1]

\* Go: json[a:b]
Slice(json, a, b) ==
  IF a < 0 \/ b < a \/ b > Len(json) THEN Panic ELSE SubSeq(json, a + 1, b)

\* the first offset of s whose byte satisfies Hit, or -1
Index(buf, Hit(_)) ==
  Bind(buf, LAMBDA s :
    Bind({k \in 0..(Len(s) - 1) : Hit(s[k + 1])}, LAMBDA hits :
      IF hits = {} THEN -1 ELSE Min(hits)))

\* Go: strings.IndexByte(s, c)
IndexByte(s, c) == Index(s, LAMBDA b : b = c)

(***************************************************************************)
(* Scanner                                                                 *)
(***************************************************************************)
IsSpace(c) == c \in {" ", "\t", "\n", "\r"}

consumeWhitespace(buf) ==
  Bind(buf, LAMBDA json :
    Bind(Index(json, LAMBDA c : ~IsSpace(c)), LAMBDA i :
      IF i = -1 THEN From(json, Len(json)) ELSE From(json, i)))

prevChar(buf, i) ==
  Bind(buf, LAMBDA json :
    Bind({k \in 0..(i - 1) : ~IsSpace(json[k + 1])}, LAMBDA back :
      IF back = {} THEN At(json, i) ELSE json[Max(back) + 1]))

consumeSeparator(buf) ==
  Bind(buf, LAMBDA json :
    Bind(From(json, 1), LAMBDA r : IF IsErr(r) THEN r ELSE consumeWhitespace(r)))

\* the loop of consumeString, at offset i
RECURSIVE consumeStringAt(_, _)
consumeStringAt(json, i) ==
  IF i >= Len(json) THEN json
  ELSE IF json[i + 1] = "\"" THEN From(json, i + 1)
  ELSE IF json[i + 1] = "\\" THEN consumeStringAt(json, i + 2)
  ELSE consumeStringAt(json, i + 1)

consumeString(buf) == Bind(buf, LAMBDA json : consumeStringAt(json, 1))

parseString(buf) ==
  Bind(buf, LAMBDA json :
    Bind(consumeString(json), LAMBDA after :
      Bind(Slice(json, 1, 1 + (Len(json) - Len(after) - 2)), LAMBDA key :
        IF IsErr(key) THEN [key |-> Panic, after |-> Panic]
        ELSE [key |-> key, after |-> after])))

IsNumberByte(c) ==
  c \in {"0", "1", "2", "3", "4", "5", "6", "7", "8", "9", "+", "-", ".", "e", "E"}

consumeNumber(buf) ==
  Bind(buf, LAMBDA json :
    Bind(Index(json, LAMBDA c : ~IsNumberByte(c)), LAMBDA i :
      IF i = -1 THEN From(json, Len(json)) ELSE From(json, i)))

\* indexObject that does not stop at a quote: the bytes of strings are scanned
\* for braces like any others
indexObjectBraces(json) == Index(json, LAMBDA c : c \in {"{", "}"})

indexObject(json) == Index(json, LAMBDA c : c \in {"{", "}", "\""})

indexArray(json) == Index(json, LAMBDA c : c \in {"[", "]", "\""})

\* the loop of consumeObject, n being the nesting depth
RECURSIVE consumeObjectLoop(_, _)
consumeObjectLoop(buf, depth) ==
  Bind(<<buf, depth>>, LAMBDA a :
    LET json == a[1]
        n == a[2]
    IN IF n <= 0 THEN json
       ELSE Bind(indexObject(json), LAMBDA k :
              LET j1 == From(json, k)
              IN IF IsErr(j1) THEN j1
                 ELSE IF j1[1] = "{" THEN consumeObjectLoop(From(j1, 1), n + 1)
                 ELSE IF j1[1] = "}" THEN consumeObjectLoop(From(j1, 1), n - 1)
                 ELSE Bind(consumeString(j1), LAMBDA r :
                        IF r = j1 THEN Hang ELSE consumeObjectLoop(r, n))))

consumeObject(buf) ==
  Bind(buf, LAMBDA json :
    Bind(From(json, 1), LAMBDA r : IF IsErr(r) THEN r ELSE consumeObjectLoop(r, 1)))

\* the loop of consumeArray, n being the nesting depth
RECURSIVE consumeArrayLoop(_, _)
consumeArrayLoop(buf, depth) ==
  Bind(<<buf, depth>>, LAMBDA a :
    LET json == a[1]
        n == a[2]
    IN IF n <= 0 THEN json
       ELSE Bind(indexArray(json), LAMBDA k :
              LET j1 == From(json, k)
              IN IF IsErr(j1) THEN j1
                 ELSE IF j1[1] = "[" THEN consumeArrayLoop(From(j1, 1), n + 1)
                 ELSE IF j1[1] = "]" THEN consumeArrayLoop(From(j1, 1), n - 1)
                 ELSE Bind(consumeString(j1), LAMBDA r :
                        IF r = j1 THEN Hang ELSE consumeArrayLoop(r, n))))

consumeArray(buf) ==
  Bind(buf, LAMBDA json :
    Bind(From(json, 1), LAMBDA r : IF IsErr(r) THEN r ELSE consumeArrayLoop(r, 1)))

consumeValue(buf) ==
  Bind(buf, LAMBDA json :
    LET c == At(json, 0)
    IN IF c = "PANIC" THEN Panic
       ELSE IF c = "{" THEN consumeObject(json)
       ELSE IF c = "[" THEN consumeArray(json)
       ELSE IF c = "\"" THEN consumeString(json)
       ELSE IF c \in {"t", "n"} THEN From(json, 4)
       ELSE IF c = "f" THEN From(json, 5)
       ELSE consumeNumber(json))

(***************************************************************************)
(* Accessor locator                                                        *)
(***************************************************************************)
IsDigit(c) == c \in {"0", "1", "2", "3", "4", "5", "6", "7", "8", "9"}

DigitVal(c) ==
  CHOOSE v \in 0..9 : <<"0", "1", "2", "3", "4", "5", "6", "7", "8", "9">>[v + 1] = c

RECURSIVE Decimal(_)
Decimal(s) ==
  IF s = <<>> THEN 0
  ELSE 10 * Decimal(SubSeq(s, 1, Len(s) - 1)) + DigitVal(s[Len(s)])

\* Go: strconv.Atoi(acc), for accessors short enough not to overflow an int
Atoi(str) ==
  Bind(str, LAMBDA acc :
    LET signed == acc # <<>> /\ acc[1] \in {"+", "-"}
        digits == IF signed THEN Tail(acc) ELSE acc
    IN IF digits = <<>> \/ \E k \in 1..Len(digits) : ~IsDigit(digits[k])
       THEN [err |-> TRUE, n |-> 0]
       ELSE [err |-> FALSE,
             n |-> IF acc[1] = "-" THEN 0 - Decimal(digits) ELSE Decimal(digits)])

\* what locateAccessor yields: an offset (-1 for not found), a panic or a hang
Loc(off) == [st |-> "ok", off |-> off]
LocFail(st) == [st |-> st, off |-> -1]
ErrOf(s) == IF s = Hang THEN "hang" ELSE "panic"

RECURSIVE locateObject(_, _, _)
\* the key loop comparing with bytes.HasPrefix: a key that begins with acc is
\* taken for acc
locateObjectPrefix(buf, acc, origLen) ==
  Bind(buf, LAMBDA json :
    IF json = <<>> THEN LocFail("panic")
    ELSE IF json[1] = "}" THEN Loc(origLen - Len(json))
    ELSE Bind(parseString(json), LAMBDA ps :
      IF IsErr(ps.after) THEN LocFail("panic")
      ELSE Bind(consumeSeparator(consumeWhitespace(ps.after)), LAMBDA j1 :
        IF IsErr(j1) THEN LocFail("panic")
        ELSE IF Len(ps.key) >= Len(acc) /\ SubSeq(ps.key, 1, Len(acc)) = acc
        THEN Loc(origLen - Len(j1))
        ELSE Bind(consumeValue(j1), LAMBDA j2 :
          IF IsErr(j2) THEN LocFail(ErrOf(j2))
          ELSE Bind(consumeWhitespace(j2), LAMBDA j3 :
            IF j3 = <<>> THEN LocFail("panic")
            ELSE IF j3[1] = ","
            THEN locateObject(consumeSeparator(j3), acc, origLen)
            ELSE locateObject(j3, acc, origLen))))))

\* the key loop of locateAccessor's object case
locateObject(buf, acc, origLen) ==
  Bind(buf, LAMBDA json :
    IF json = <<>> THEN LocFail("panic")
    ELSE IF json[1] = "}" THEN Loc(origLen - Len(json))
    ELSE Bind(parseString(json), LAMBDA ps :
      IF IsErr(ps.after) THEN LocFail("panic")
      ELSE Bind(consumeSeparator(consumeWhitespace(ps.after)), LAMBDA j1 :
        IF IsErr(j1) THEN LocFail("panic")
        ELSE IF ps.key = acc THEN Loc(origLen - Len(j1))
        ELSE Bind(consumeValue(j1), LAMBDA j2 :
          IF IsErr(j2) THEN LocFail(ErrOf(j2))
          ELSE Bind(consumeWhitespace(j2), LAMBDA j3 :
            IF j3 = <<>> THEN LocFail("panic")
            ELSE IF j3[1] = ","
            THEN locateObject(consumeSeparator(j3), acc, origLen)
            ELSE locateObject(j3, acc, origLen))))))

RECURSIVE locateArray(_, _, _, _)
\* the element loop with its condition off by one (n >= arrayLen): element n
\* itself is consumed, so that an existing last index yields the closing ]
locateArrayOffByOne(buf, n, arrayLen, origLen) ==
  Bind(buf, LAMBDA json :
    IF n >= arrayLen /\ json = <<>> THEN LocFail("panic")
    ELSE IF n >= arrayLen /\ json[1] # "]"
    THEN Bind(consumeValue(json), LAMBDA j1 :
           IF IsErr(j1) THEN LocFail(ErrOf(j1))
           ELSE Bind(consumeWhitespace(j1), LAMBDA j2 :
                  IF j2 = <<>> THEN LocFail("panic")
                  ELSE IF j2[1] = ","
                  THEN locateArray(consumeSeparator(j2), n, arrayLen + 1, origLen)
                  ELSE locateArray(j2, n, arrayLen + 1, origLen)))
    ELSE IF n > arrayLen THEN Loc(-1)
    ELSE Loc(origLen - Len(json)))

\* the element loop of locateAccessor's array case
locateArray(buf, n, arrayLen, origLen) ==
  Bind(buf, LAMBDA json :
    IF n > arrayLen /\ json = <<>> THEN LocFail("panic")
    ELSE IF n > arrayLen /\ json[1] # "]"
    THEN Bind(consumeValue(json), LAMBDA j1 :
           IF IsErr(j1) THEN LocFail(ErrOf(j1))
           ELSE Bind(consumeWhitespace(j1), LAMBDA j2 :
                  IF j2 = <<>> THEN LocFail("panic")
                  ELSE IF j2[1] = ","
                  THEN locateArray(consumeSeparator(j2), n, arrayLen + 1, origLen)
                  ELSE locateArray(j2, n, arrayLen + 1, origLen)))
    ELSE IF n > arrayLen THEN Loc(-1)
    ELSE Loc(origLen - Len(json)))

locateAccessor(buf, accessor) ==
  Bind(<<buf, accessor, consumeWhitespace(buf)>>, LAMBDA a :
    LET origLen == Len(a[1])
        acc == a[2]
        json == a[3]
    IN IF Len(json) = 0 \/ Len(json) < Len(acc) THEN Loc(-1)
       ELSE IF json[1] = "{" THEN locateObject(consumeSeparator(json), acc, origLen)
       ELSE IF json[1] = "["
       THEN Bind(Atoi(acc), LAMBDA n :
              IF n.err \/ n.n < 0 THEN Loc(-1)
              ELSE locateArray(consumeSeparator(json), n.n, 0, origLen))
       ELSE IF json[1] = "n"
       THEN Bind(Atoi(acc), LAMBDA n :
              IF n.err \/ n.n # 0 THEN Loc(-1)
              ELSE LET r == From(json, 3)
                   IN IF IsErr(r) THEN LocFail("panic") ELSE Loc(origLen - Len(r)))
       ELSE Loc(-1))

(***************************************************************************)
(* Path rewriter                                                           *)
(*                                                                         *)
(* A call yields a record: st ("ok", "panic" or "hang"), ret (the bytes of *)
(* the returned slice), shared (the returned slice lies in the storage of  *)
(* the argument json), mem (the bytes of the argument's storage, over its  *)
(* first len(json) bytes, when the call ends) and branch (the return       *)
(* statement taken).                                                       *)
(***************************************************************************)
Outcome(st, ret, shared, mem, branch) ==
  [st |-> st, ret |-> ret, shared |-> shared, mem |-> mem, branch |-> branch]

Failed(st, json) == Outcome(st, <<>>, FALSE, json, "none")

\* Go: json[k] = c
SetByte(json, k, c) == [json EXCEPT ![k + 1] = c]

\* Go: copy(json[k:], src)
Copy(json, k, src) ==
  [m \in 1..Len(json) |->
     IF m > k /\ m <= k + Len(src) THEN src[m - k] ELSE json[m]]

\* the padding loop: json[k+j] = ' ' for j < count
Pad(json, k, count) ==
  [m \in 1..Len(json) |-> IF m > k /\ m <= k + count THEN " " ELSE json[m]]

\* what the accessor loop of rewritePath ends with: st is "done" (the loop
\* ended, at offset i with lastAcc), "malformed" (a return json), "panic" or
\* "hang"
Sought(st, i, lastAcc) == [st |-> st, i |-> i, lastAcc |-> lastAcc]

\* one iteration of the accessor loop, entered with lastAcc == ""
RECURSIVE seekPath(_, _, _, _)
seekPath(json, path, j, i) ==
  Bind(From(path, j), LAMBDA pj :
    IF IsErr(pj) THEN Sought("panic", i, <<>>)
    ELSE Bind(IndexByte(pj, "."), LAMBDA dot :
      LET dotIndex == IF dot = -1 THEN Len(pj) ELSE dot
          lastAcc == IF dot = -1 THEN pj ELSE <<>>
          acc == SubSeq(path, j + 1, j + dotIndex)
      IN Bind(locateAccessor(From(json, i), acc), LAMBDA accIndex :
           IF accIndex.st # "ok" THEN Sought(accIndex.st, i, lastAcc)
           ELSE IF accIndex.off = -1 THEN Sought("malformed", i, lastAcc)
           ELSE IF At(json, accIndex.off) = "PANIC" THEN Sought("panic", i, lastAcc)
           ELSE IF At(json, accIndex.off) \in {"]", "}", "l"} /\ lastAcc = <<>>
           THEN Sought("malformed", i, lastAcc)
           ELSE IF lastAcc # <<>> THEN Sought("done", i + accIndex.off, lastAcc)
           ELSE Bind(<<j + dotIndex + 1, i + accIndex.off>>, LAMBDA nx :
                  seekPath(json, path, nx[1], nx[2])))))

\* rewritePath from "hack for appending to null" to its end
rewriteAt(json, i0, lastAcc, val, inPlace) ==
  LET appendNull == At(json, i0) = "l" /\ lastAcc = <<"0">>
      i == IF appendNull THEN i0 - 3 ELSE i0
      newLen == Len(val) + (IF appendNull THEN 2 ELSE 0)
  IN IF At(json, i0) = "PANIC" THEN Failed("panic", json)
     ELSE IF IsErr(From(json, i)) THEN Failed("panic", json)
     ELSE Bind(consumeValue(From(json, i)), LAMBDA rest :
       LET atAppend == json[i + 1] \in {"}", "]"}
           oldLen == IF atAppend THEN 0 ELSE (Len(json) - i) - Len(rest)
           written ==
             IF appendNull
             THEN SetByte(Copy(SetByte(json, i, "["), i + 1, val), i + newLen - 1, "]")
             ELSE Copy(json, i, val)
           insert ==
             IF json[i + 1] = "}"
             THEN (IF prevChar(json, i) # "{" THEN <<",">> ELSE <<>>)
                  \o <<"\"">> \o lastAcc \o <<"\"", ":">> \o val
             ELSE IF json[i + 1] = "]"
             THEN (IF prevChar(json, i) # "[" THEN <<",">> ELSE <<>>) \o val
             ELSE IF json[i + 1] = "n" THEN <<"[">> \o val \o <<"]">>
             ELSE val
       IN IF IsErr(rest) THEN Failed(ErrOf(rest), json)
          ELSE IF inPlace /\ newLen <= oldLen
          THEN Bind(Pad(written, i + newLen, oldLen - newLen), LAMBDA m :
                 Outcome("ok", m, TRUE, m, "inplace"))
          ELSE Outcome("ok", SubSeq(json, 1, i) \o insert \o rest, FALSE, json, "alloc"))

\* rewritePath without the early returns of the accessor loop: a path that is
\* found malformed is rewritten at the cursor the loop had reached
rewritePathNoReturn(buf, cap, pathStr, value, inPlace) ==
  Bind(<<buf, pathStr, value>>, LAMBDA a :
    LET json == a[1]
        path == a[2]
        val == a[3]
    IN IF path = <<>>
       THEN IF inPlace /\ Len(val) <= cap
            THEN Outcome("ok", val, TRUE,
                         [m \in 1..Len(json) |-> IF m <= Len(val) THEN val[m] ELSE json[m]],
                         "whole")
            ELSE Outcome("ok", val, FALSE, json, "whole")
       ELSE Bind(seekPath(json, path, 0, 0), LAMBDA s :
              IF s.st \notin {"done", "malformed"} THEN Failed(s.st, json)
              ELSE rewriteAt(json, s.i, s.lastAcc, val, inPlace)))

\* cap is the capacity of json's storage (cap >= Len(json))
rewritePath(buf, cap, pathStr, value, inPlace) ==
  Bind(<<buf, pathStr, value>>, LAMBDA a :
    LET json == a[1]
        path == a[2]
        val == a[3]
    IN IF path = <<>>
       THEN IF inPlace /\ Len(val) <= cap
            THEN Outcome("ok", val, TRUE,
                         [m \in 1..Len(json) |-> IF m <= Len(val) THEN val[m] ELSE json[m]],
                         "whole")
            ELSE Outcome("ok", val, FALSE, json, "whole")
       ELSE Bind(seekPath(json, path, 0, 0), LAMBDA s :
              IF s.st = "malformed" THEN Outcome("ok", json, TRUE, json, "malformed")
              ELSE IF s.st # "done" THEN Failed(s.st, json)
              ELSE rewriteAt(json, s.i, s.lastAcc, val, inPlace)))

(***************************************************************************)
(* Value encoder                                                           *)
(***************************************************************************)
\* the values handed to Set and SetInPlace: nil, a bool, an int or a string
NilValue == [kind |-> "nil", n |-> 0, s |-> <<>>]
BoolValue(b) == [kind |-> "bool", n |-> IF b THEN 1 ELSE 0, s |-> <<>>]
IntValue(n) == [kind |-> "int", n |-> n, s |-> <<>>]
StringValue(s) == [kind |-> "string", n |-> 0, s |-> s]

RECURSIVE AppendUint(_)
AppendUint(n) ==
  LET digit == <<<<"0", "1", "2", "3", "4", "5", "6", "7", "8", "9">>[(n % 10) + 1]>>
  IN IF n < 10 THEN digit ELSE AppendUint(n \div 10) \o digit

\* Go: strconv.AppendInt(nil, n, 10)
AppendInt(n) == IF n < 0 THEN <<"-">> \o AppendUint(0 - n) ELSE AppendUint(n)

\* Go: strconv.AppendQuote(nil, s), for strings of printable ASCII
RECURSIVE QuoteBody(_)
QuoteBody(s) ==
  IF s = <<>> THEN <<>>
  ELSE (IF Head(s) \in {"\"", "\\"} THEN <<"\\", Head(s)>> ELSE <<Head(s)>>)
       \o QuoteBody(Tail(s))

\* AppendQuote leaving out the enclosing quotes
AppendQuoteBare(s) == QuoteBody(s)

AppendQuote(s) == <<"\"">> \o QuoteBody(s) \o <<"\"">>

marshal(obj) ==
  IF obj.kind = "int" THEN AppendInt(obj.n)
  ELSE IF obj.kind = "string" THEN AppendQuote(obj.s)
  ELSE IF obj.kind = "bool"
  THEN (IF obj.n = 1 THEN <<"t", "r", "u", "e">> ELSE <<"f", "a", "l", "s", "e">>)
  ELSE <<"n", "u", "l", "l">>

(***************************************************************************)
(* Entry points                                                            *)
(***************************************************************************)
\* Set handing rewritePath inPlace = true
SetSharing(json, cap, path, obj) == rewritePath(json, cap, path, marshal(obj), TRUE)

Set(json, cap, path, obj) == rewritePath(json, cap, path, marshal(obj), FALSE)

SetInPlace(json, cap, path, obj) == rewritePath(json, cap, path, marshal(obj), TRUE)

SetRawInPlace(json, cap, path, val) == rewritePath(json, cap, path, val, TRUE)

(***************************************************************************)
(* Reference reading of a document, by the JSON grammar (RFC 8259).  The   *)
(* claims are stated against it; nothing of the program is defined by it.  *)
(* Offsets are 0-based; -1 means that the text is not well-formed there.   *)
(***************************************************************************)
RefWs(d, o) ==
  Bind({k \in o..(Len(d) - 1) : ~IsSpace(d[k + 1])}, LAMBDA stop :
    IF stop = {} THEN Len(d) ELSE Min(stop))

RefDigitsEnd(d, o) ==
  Bind({k \in o..(Len(d) - 1) : ~IsDigit(d[k + 1])}, LAMBDA stop :
    IF stop = {} THEN Len(d) ELSE Min(stop))

\* the end of the string whose content is being read at offset o
RECURSIVE RefStringScan(_, _)
RefStringScan(d, o) ==
  IF o >= Len(d) THEN -1
  ELSE IF d[o + 1] = "\"" THEN o + 1
  ELSE IF d[o + 1] = "\\" THEN (IF o + 1 >= Len(d) THEN -1 ELSE RefStringScan(d, o + 2))
  ELSE RefStringScan(d, o + 1)

RefStringEnd(d, o) == IF At(d, o) = "\"" THEN RefStringScan(d, o + 1) ELSE -1

RefNumberEnd(d, o) ==
  LET p0 == IF At(d, o) = "-" THEN o + 1 ELSE o
      p1 == IF At(d, p0) = "0" THEN p0 + 1
            ELSE IF IsDigit(At(d, p0)) THEN RefDigitsEnd(d, p0) ELSE -1
      p2 == IF p1 = -1 THEN -1
            ELSE IF At(d, p1) # "." THEN p1
            ELSE IF IsDigit(At(d, p1 + 1)) THEN RefDigitsEnd(d, p1 + 1) ELSE -1
      p3 == IF At(d, p2 + 1) \in {"+", "-"} THEN p2 + 2 ELSE p2 + 1
  IN IF p2 = -1 THEN -1
     ELSE IF At(d, p2) \notin {"e", "E"} THEN p2
     ELSE IF IsDigit(At(d, p3)) THEN RefDigitsEnd(d, p3) ELSE -1

RefLiteralEnd(d, o, word) ==
  IF o + Len(word) <= Len(d) /\ SubSeq(d, o + 1, o + Len(word)) = word
  THEN o + Len(word) ELSE -1

RefItem(key, s, e) == [key |-> key, s |-> s, e |-> e]
RefBad == [ok |-> FALSE, items |-> <<>>, close |-> -1]

RECURSIVE RefValueEnd(_, _)
RECURSIVE RefArrayItems(_, _, _)
RECURSIVE RefObjectItems(_, _, _)

\* the elements of the array from the element at offset o on
RefArrayItems(d, o, items) ==
  Bind(RefValueEnd(d, o), LAMBDA e :
    IF e = -1 THEN RefBad
    ELSE Bind(RefWs(d, e), LAMBDA q :
      IF At(d, q) = "]"
      THEN [ok |-> TRUE, items |-> Append(items, RefItem(<<>>, o, e)), close |-> q]
      ELSE IF At(d, q) = ","
      THEN RefArrayItems(d, RefWs(d, q + 1), Append(items, RefItem(<<>>, o, e)))
      ELSE RefBad))

\* the members of the object from the member whose key is at offset o on
RefObjectItems(d, o, items) ==
  Bind(RefStringEnd(d, o), LAMBDA ke :
    IF ke = -1 \/ At(d, RefWs(d, ke)) # ":" THEN RefBad
    ELSE Bind(RefWs(d, RefWs(d, ke) + 1), LAMBDA vs :
      Bind(RefValueEnd(d, vs), LAMBDA ve :
        IF ve = -1 THEN RefBad
        ELSE Bind(<<RefWs(d, ve), Append(items, RefItem(SubSeq(d, o + 2, ke - 1), vs, ve))>>,
               LAMBDA a :
                 IF At(d, a[1]) = "}" THEN [ok |-> TRUE, items |-> a[2], close |-> a[1]]
                 ELSE IF At(d, a[1]) = ","
                 THEN RefObjectItems(d, RefWs(d, a[1] + 1), a[2])
                 ELSE RefBad))))

\* the members of the container that starts at offset o, and its closing offset
RefItems(d, o) ==
  Bind(RefWs(d, o + 1), LAMBDA p :
    IF At(d, o) = "[" /\ At(d, p) = "]" THEN [ok |-> TRUE, items |-> <<>>, close |-> p]
    ELSE IF At(d, o) = "{" /\ At(d, p) = "}" THEN [ok |-> TRUE, items |-> <<>>, close |-> p]
    ELSE IF At(d, o) = "[" THEN RefArrayItems(d, p, <<>>)
    ELSE IF At(d, o) = "{" THEN RefObjectItems(d, p, <<>>)
    ELSE RefBad)

\* the offset just after the value that starts at offset o
RefValueEnd(d, o) ==
  IF At(d, o) \in {"{", "["}
  THEN Bind(RefItems(d, o), LAMBDA c : IF c.ok THEN c.close + 1 ELSE -1)
  ELSE IF At(d, o) = "\"" THEN RefStringEnd(d, o)
  ELSE IF At(d, o) = "t" THEN RefLiteralEnd(d, o, <<"t", "r", "u", "e">>)
  ELSE IF At(d, o) = "f" THEN RefLiteralEnd(d, o, <<"f", "a", "l", "s", "e">>)
  ELSE IF At(d, o) = "n" THEN RefLiteralEnd(d, o, <<"n", "u", "l", "l">>)
  ELSE RefNumberEnd(d, o)

\* d is one JSON value, with whitespace around it
WellFormed(d) ==
  Bind(RefValueEnd(d, RefWs(d, 0)), LAMBDA e : e # -1 /\ RefWs(d, e) = Len(d))

\* the accessors of a path: strings.Split(path, ".")
RECURSIVE RefSplit(_)
RefSplit(path) ==
  Bind(IndexByte(path, "."), LAMBDA dot :
    IF dot = -1 THEN <<path>>
    ELSE <<SubSeq(path, 1, dot)>> \o RefSplit(SubSeq(path, dot + 2, Len(path))))

\* a Location: loc is "found" (the value is d[off..end)), "append" (off is the
\* closing delimiter of a container of n members), "null" (d[off..end) is the
\* null that accessor 0 appends to) or "none"; in is the kind of the parent
RefLoc(loc, in, off, end, n) == [loc |-> loc, in |-> in, off |-> off, end |-> end, n |-> n]
RefNone == RefLoc("none", "none", -1, -1, 0)

IsIndex(acc) == acc # <<>> /\ \A k \in 1..Len(acc) : IsDigit(acc[k])

\* the Location of accessor acc in the value at offset o (section 4.2)
RefLocate(d, o, acc) ==
  Bind(RefWs(d, o), LAMBDA s :
    IF At(d, s) = "{"
    THEN Bind(RefItems(d, s), LAMBDA c :
           LET hit == {k \in 1..Len(c.items) : c.items[k].key = acc}
           IN IF ~c.ok THEN RefNone
              ELSE IF hit = {} THEN RefLoc("append", "object", c.close, c.close, Len(c.items))
              ELSE RefLoc("found", "object", c.items[Min(hit)].s, c.items[Min(hit)].e,
                          Len(c.items)))
    ELSE IF At(d, s) = "["
    THEN Bind(RefItems(d, s), LAMBDA c :
           LET n == Decimal(acc)
           IN IF ~c.ok \/ ~IsIndex(acc) THEN RefNone
              ELSE IF n < Len(c.items)
              THEN RefLoc("found", "array", c.items[n + 1].s, c.items[n + 1].e, Len(c.items))
              ELSE IF n = Len(c.items)
              THEN RefLoc("append", "array", c.close, c.close, Len(c.items))
              ELSE RefNone)
    ELSE IF RefLiteralEnd(d, s, <<"n", "u", "l", "l">>) # -1 /\ acc = <<"0">>
    THEN RefLoc("null", "null", s, s + 4, 0)
    ELSE RefNone)

\* the Location of the last of accs, the others being found one inside the other
RECURSIVE RefWalk(_, _, _)
RefWalk(d, o, accs) ==
  Bind(RefLocate(d, o, Head(accs)), LAMBDA r :
    IF Len(accs) = 1 THEN r
    ELSE IF r.loc = "found" THEN RefWalk(d, r.off, Tail(accs))
    ELSE RefNone)

\* the Location a path addresses in d; the empty path addresses all of d
RefResolve(d, path) ==
  IF path = <<>> THEN RefLoc("found", "none", 0, Len(d), 0)
  ELSE RefWalk(d, 0, RefSplit(path))

\* d with the bytes d[off..end) replaced by new
Splice(d, off, end, new) == SubSeq(d, 1, off) \o new \o SubSeq(d, end + 1, Len(d))

(***************************************************************************)
(* The calls explored: the documents, paths and values of the bounded      *)
(* input space.  Every document is well-formed JSON.                       *)
(***************************************************************************)
MaxSegs == 3
MaxSlack == 1

Docs ==
  {
    \* {}
    <<"{", "}">>,
    \* []
    <<"[", "]">>,
    \* null
    <<"n", "u", "l", "l">>,
    \* {"a":1}
    <<"{", "\"", "a", "\"", ":", "1", "}">>,
    \* {"a":null}
    <<"{", "\"", "a", "\"", ":", "n", "u", "l", "l", "}">>,
    \* [7]
    <<"[", "7", "]">>,
    \* [ true,null]
    <<"[", " ", "t", "r", "u", "e", ",", "n", "u", "l", "l", "]">>,
    \* {"a": [1]}
    <<"{", "\"", "a", "\"", ":", " ", "[", "1", "]", "}">>,
    \* {"foo": {}}
    <<"{", "\"", "f", "o", "o", "\"", ":", " ", "{", "}", "}">>,
    \* [[],[ [5]]]
    <<"[", "[", "]", ",", "[", " ", "[", "5", "]", "]", "]">>,
    \* [[],[ null]]
    <<"[", "[", "]", ",", "[", " ", "n", "u", "l", "l", "]", "]">>,
    \* {"a":"xy"}
    <<"{", "\"", "a", "\"", ":", "\"", "x", "y", "\"", "}">>,
    \* "foo"
    <<"\"", "f", "o", "o", "\"">>,
    \* {"a":{"a":[1]}}
    <<"{", "\"", "a", "\"", ":", "{", "\"", "a", "\"", ":", "[", "1", "]", "}", "}">>,
    \* {"":{"":3}}
    <<"{", "\"", "\"", ":", "{", "\"", "\"", ":", "3", "}", "}">>
  }

\* the accessors paths are built from: the keys a and foo, the indices 0 and
\* 1, and the empty accessor
Accs == {<<"a">>, <<"f", "o", "o">>, <<"0">>, <<"1">>, <<>>}

RECURSIVE PathsOf(_)
PathsOf(n) ==
  IF n <= 1 THEN Accs
  ELSE {p \o <<".">> \o a : p \in PathsOf(n - 1), a \in Accs}

Paths == UNION {PathsOf(n) : n \in 1..MaxSegs}

Values == {NilValue, BoolValue(FALSE), IntValue(7), StringValue(<<>>)}

RawValues == {<<>>, <<"[", "]">>, <<"1", "2">>}

(***************************************************************************)
(* State: the caller's buffer and the last call made on it                 *)
(***************************************************************************)
VARIABLES
  json,   \* the document the caller holds: the argument of the next call
  cap,    \* the capacity of its storage
  call    \* the call that was made: its arguments and its outcome

vars == <<json, cap, call>>

NoCall ==
  [op |-> "none", d |-> <<>>, cap |-> 0, path |-> <<>>, val |-> <<>>,
   res |-> Outcome("ok", <<>>, FALSE, <<>>, "none")]

Init ==
  /\ json \in {d \in Docs : WellFormed(d)}
  /\ cap \in {Len(json) + s : s \in 0..MaxSlack}
  /\ call = NoCall

\* the caller goes on with the returned buffer; a slice of the argument's
\* storage keeps its capacity, a fresh one is taken to be exactly as long as
\* its contents
Return(op, path, val, res) ==
  /\ call' = [op |-> op, d |-> json, cap |-> cap, path |-> path, val |-> val,
              res |-> res]
  /\ json' = IF res.st = "ok" THEN res.ret ELSE json
  /\ cap' = IF res.st = "ok" /\ ~res.shared THEN Len(res.ret) ELSE cap

CallSet ==
  /\ call.op = "none"
  /\ \E path \in Paths, obj \in Values :
       Return("Set", path, marshal(obj), Set(json, cap, path, obj))

CallSetInPlace ==
  /\ call.op = "none"
  /\ \E path \in Paths, obj \in Values :
       Return("SetInPlace", path, marshal(obj), SetInPlace(json, cap, path, obj))

CallSetRawInPlace ==
  /\ call.op = "none"
  /\ \E path \in Paths, val \in RawValues :
       Return("SetRawInPlace", path, val, SetRawInPlace(json, cap, path, val))

Next == CallSet \/ CallSetInPlace \/ CallSetRawInPlace

Spec == Init /\ [][Next]_vars

(***************************************************************************)
(* Calls on a wider input space: documents that are not well-formed JSON,  *)
(* accessors that read as the number 0, and the example of the README      *)
(***************************************************************************)
MaxWideSegs == 2

ReadmeDoc == <<"{", "\"", "n", "a", "m", "e", "\"", ":", "{", "\"", "l", "a", "s", "t", "\"", ":", "\"", "A", "n", "d", "e", "r", "s", "o", "n", "\"", "}", "}">>
ReadmeFirst == <<"n", "a", "m", "e", ".", "f", "i", "r", "s", "t">>
ReadmeLast == <<"n", "a", "m", "e", ".", "l", "a", "s", "t">>
Sara == StringValue(<<"S", "a", "r", "a">>)

WideDocs ==
  {
    \* null
    <<"n", "u", "l", "l">>,
    \* {"a":null}
    <<"{", "\"", "a", "\"", ":", "n", "u", "l", "l", "}">>,
    \* [ true,null]
    <<"[", " ", "t", "r", "u", "e", ",", "n", "u", "l", "l", "]">>,
    \* (empty)
    <<>>,
    \* {
    <<"{">>,
    \* [1
    <<"[", "1">>,
    \* t
    <<"t">>,
    \* {"a"
    <<"{", "\"", "a", "\"">>,
    \* {"a
    <<"{", "\"", "a">>,
    \* {"a":{"b
    <<"{", "\"", "a", "\"", ":", "{", "\"", "b">>,
    \* {"name":{"last":"Anderson"}}
    <<"{", "\"", "n", "a", "m", "e", "\"", ":", "{", "\"", "l", "a", "s", "t", "\"", ":", "\"", "A", "n", "d", "e", "r", "s", "o", "n", "\"", "}", "}">>
  }

WideAccs == {<<"0">>, <<"0", "0">>, <<"+", "0">>, <<"-", "0">>, <<"1">>,
             <<"f", "o", "o">>, <<"a">>}

RECURSIVE WidePathsOf(_)
WidePathsOf(n) ==
  IF n <= 1 THEN WideAccs
  ELSE {p \o <<".">> \o a : p \in WidePathsOf(n - 1), a \in WideAccs}

WidePaths == UNION {WidePathsOf(n) : n \in 1..MaxWideSegs} \cup {ReadmeFirst, ReadmeLast}

WideValues == Values \cup {Sara}

WideInit ==
  /\ json \in WideDocs
  /\ cap \in {Len(json) + s : s \in 0..MaxSlack}
  /\ call = NoCall

WideSet ==
  /\ call.op = "none"
  /\ \E path \in WidePaths, obj \in WideValues :
       Return("Set", path, marshal(obj), Set(json, cap, path, obj))

WideSetInPlace ==
  /\ call.op = "none"
  /\ \E path \in WidePaths, obj \in WideValues :
       Return("SetInPlace", path, marshal(obj), SetInPlace(json, cap, path, obj))

WideSetRawInPlace ==
  /\ call.op = "none"
  /\ \E path \in WidePaths, val \in RawValues :
       Return("SetRawInPlace", path, val, SetRawInPlace(json, cap, path, val))

WideNext == WideSet \/ WideSetInPlace \/ WideSetRawInPlace

SpecWide == WideInit /\ [][WideNext]_vars

(***************************************************************************)
(* The scanner and the locator applied on their own: consumeValue to a     *)
(* value followed by a suffix, locateAccessor to a value and an accessor   *)
(***************************************************************************)
ScanValues ==
  {
    \* 1
    <<"1">>,
    \* -1.5e3
    <<"-", "1", ".", "5", "e", "3">>,
    \* 0
    <<"0">>,
    \* true
    <<"t", "r", "u", "e">>,
    \* false
    <<"f", "a", "l", "s", "e">>,
    \* null
    <<"n", "u", "l", "l">>,
    \* ""
    <<"\"", "\"">>,
    \* "a"
    <<"\"", "a", "\"">>,
    \* "a\"b"
    <<"\"", "a", "\\", "\"", "b", "\"">>,
    \* "\\"
    <<"\"", "\\", "\\", "\"">>,
    \* "{"
    <<"\"", "{", "\"">>,
    \* "]}"
    <<"\"", "]", "}", "\"">>,
    \* {}
    <<"{", "}">>,
    \* []
    <<"[", "]">>,
    \* {"a":1}
    <<"{", "\"", "a", "\"", ":", "1", "}">>,
    \* [[1],{"a":[2]}]
    <<"[", "[", "1", "]", ",", "{", "\"", "a", "\"", ":", "[", "2", "]", "}",
      "]">>,
    \* {"a":{"b":[1,{"c":"}"}]}}
    <<"{", "\"", "a", "\"", ":", "{", "\"", "b", "\"", ":", "[", "1", ",",
      "{", "\"", "c", "\"", ":", "\"", "}", "\"", "}", "]", "}", "}">>,
    \* {"a":"\"}"}
    <<"{", "\"", "a", "\"", ":", "\"", "\\", "\"", "}", "\"", "}">>,
    \* [ "]" , "[\"" ]
    <<"[", " ", "\"", "]", "\"", " ", ",", " ", "\"", "[", "\\", "\"", "\"",
      " ", "]">>,
    \* { "a" : [ ] , "b" : { } }
    <<"{", " ", "\"", "a", "\"", " ", ":", " ", "[", " ", "]", " ", ",", " ",
      "\"", "b", "\"", " ", ":", " ", "{", " ", "}", " ", "}">>,
    \* [{"a":"]"},[{}]]
    <<"[", "{", "\"", "a", "\"", ":", "\"", "]", "\"", "}", ",", "[", "{",
      "}", "]", "]">>,
    \* {"b":{"a":2},"c":"a","\u0061":3,"a\"":4, "a" : 5,"a":6}
    <<"{", "\"", "b", "\"", ":", "{", "\"", "a", "\"", ":", "2", "}", ",",
      "\"", "c", "\"", ":", "\"", "a", "\"", ",", "\"", "\\", "u", "0", "0",
      "6", "1", "\"", ":", "3", ",", "\"", "a", "\\", "\"", "\"", ":", "4",
      ",", " ", "\"", "a", "\"", " ", ":", " ", "5", ",", "\"", "a", "\"",
      ":", "6", "}">>,
    \* "{\"a\":1}"
    <<"\"", "{", "\\", "\"", "a", "\\", "\"", ":", "1", "}", "\"">>,
    \* {"x":"\"a\":1","a":[{"a":0}]}
    <<"{", "\"", "x", "\"", ":", "\"", "\\", "\"", "a", "\\", "\"", ":", "1",
      "\"", ",", "\"", "a", "\"", ":", "[", "{", "\"", "a", "\"", ":", "0",
      "}", "]", "}">>,
    \* {"c":"\\","b":{"c":[]}}
    <<"{", "\"", "c", "\"", ":", "\"", "\\", "\\", "\"", ",", "\"", "b",
      "\"", ":", "{", "\"", "c", "\"", ":", "[", "]", "}", "}">>
  }

Suffixes ==
  {
    \* (empty)
    <<>>,
    \* ,
    <<",">>,
    \* ]
    <<"]">>,
    \* }}
    <<"}", "}">>,
    \*  
    <<" ">>,
    \* "
    <<"\"">>,
    \* 2
    <<"2">>,
    \* e+
    <<"e", "+">>,
    \* :{
    <<":", "{">>,
    \* \
    <<"\\">>
  }

ScanAccs ==
  {
    \* a
    <<"a">>,
    \* b
    <<"b">>,
    \* c
    <<"c">>,
    \* \u0061
    <<"\\", "u", "0", "0", "6", "1">>,
    \* a\"
    <<"a", "\\", "\"">>,
    \* a"
    <<"a", "\"">>,
    \* x
    <<"x">>,
    \* 0
    <<"0">>
  }

\* what consumeValue yields, as the outcome of a call that leaves json alone
Consumed(buf, rest) ==
  IF IsErr(rest) THEN Failed(ErrOf(rest), buf) ELSE Outcome("ok", rest, TRUE, buf, "none")

ScanInit ==
  /\ json \in {w \in ScanValues : RefValueEnd(w, 0) = Len(w)}
  /\ cap = Len(json)
  /\ call = NoCall

\* consumeValue(json ++ s): the caller goes on with the rest
ConsumeValue ==
  /\ call.op = "none"
  /\ \E s \in Suffixes :
       Return("consumeValue", <<>>, s, Consumed(json \o s, consumeValue(json \o s)))

\* locateAccessor(json, acc): json is left as it is
LocateAccessor ==
  /\ call.op = "none"
  /\ \E acc \in ScanAccs :
       call' = [op |-> "locateAccessor", d |-> json, cap |-> cap, path |-> acc,
                val |-> <<>>, res |-> locateAccessor(json, acc)]
  /\ UNCHANGED <<json, cap>>

ScanNext == ConsumeValue \/ LocateAccessor

SpecScan == ScanInit /\ [][ScanNext]_vars

(***************************************************************************)
(* Sequences of calls: the caller passes the buffer a call returned to the *)
(* next call, for as long as the calls return and the document is short    *)
(***************************************************************************)
MaxSeqLen == 6

SeqDocs ==
  {
    \* null
    <<"n", "u", "l", "l">>,
    \* []
    <<"[", "]">>,
    \* {}
    <<"{", "}">>
  }

SeqAccs == {<<"0">>, <<"0", "0">>, <<"a">>}

SeqPaths == SeqAccs \cup {p \o <<".">> \o a : p \in SeqAccs, a \in SeqAccs}

SeqValues == {NilValue, IntValue(7)}

\* [], 12
SeqRawValues == {<<"[", "]">>, <<"1", "2">>}

SeqInit ==
  /\ json \in SeqDocs
  /\ cap = Len(json)
  /\ call = NoCall

\* a call that panicked or never returned ends the program
Running == call.res.st = "ok" /\ Len(json) <= MaxSeqLen

SeqSet ==
  /\ Running
  /\ \E path \in SeqPaths, obj \in SeqValues :
       Return("Set", path, marshal(obj), Set(json, cap, path, obj))

SeqSetInPlace ==
  /\ Running
  /\ \E path \in SeqPaths, obj \in SeqValues :
       Return("SetInPlace", path, marshal(obj), SetInPlace(json, cap, path, obj))

SeqSetRawInPlace ==
  /\ Running
  /\ \E path \in SeqPaths, val \in SeqRawValues :
       Return("SetRawInPlace", path, val, SetRawInPlace(json, cap, path, val))

SeqNext == SeqSet \/ SeqSetInPlace \/ SeqSetRawInPlace

SpecSeq == SeqInit /\ [][SeqNext]_vars

(***************************************************************************)
(* Claims                                                                  *)
(***************************************************************************)
\* the call made was one of ops; its document is well-formed, as Init has it
Called(ops) == call.op \in ops

\* the bytes consumeValue consumes at offset off of d
SkipSpan(d, off) == (Len(d) - off) - Len(consumeValue(From(d, off)))

\* C1: for a well-formed document d and a path whose accessors all resolve to
\* existing members, the last one being an existing object key, Set(d, p, v)
\* is d with exactly the span of the addressed value (the bytes skip-value
\* consumes there) replaced by encode(v), whatever the kind of the old value.
C1_SetReplacesExactSpan ==
  Called({"Set"}) /\ call.path # <<>> =>
    LET r == RefResolve(call.d, call.path)
    IN r.loc = "found" /\ r.in = "object" =>
         /\ call.res.st = "ok"
         /\ call.res.ret =
              Splice(call.d, r.off, r.off + SkipSpan(call.d, r.off), call.val)

\* the Location rewritePath's loop is to act on (section 4.3, step 3): what
\* locateAccessor yields for acc in the slice at cursor o, read at that cursor
Location(d, o, acc) ==
  Bind(locateAccessor(From(d, o), acc), LAMBDA r :
    IF r.st # "ok" THEN [loc |-> "error", off |-> o]
    ELSE IF r.off = -1 THEN [loc |-> "none", off |-> o]
    ELSE IF At(d, o + r.off) \in {"]", "}"} THEN [loc |-> "append", off |-> o + r.off]
    ELSE IF At(d, o + r.off) = "l" THEN [loc |-> "null", off |-> o + r.off]
    ELSE [loc |-> "found", off |-> o + r.off])

\* a non-terminal accessor resolves to not-found, append or null-append, or
\* the terminal one to not-found
RECURSIVE Malformed(_, _, _)
Malformed(d, o, accs) ==
  Bind(Location(d, o, Head(accs)), LAMBDA l :
    IF Len(accs) = 1 THEN l.loc = "none"
    ELSE \/ l.loc \in {"none", "append", "null"}
         \/ l.loc = "found" /\ Malformed(d, l.off, Tail(accs)))

\* C2: Set, SetInPlace and SetRawInPlace on a well-formed document with a
\* malformed path (a non-terminal accessor resolving to not-found, append or
\* null-append, or the terminal one to not-found) return a buffer equal to the
\* input byte for byte, and change no byte of the input.
C2_MalformedPathUnchanged ==
  /\ Called({"Set", "SetInPlace", "SetRawInPlace"})
  /\ call.path # <<>>
  /\ Malformed(call.d, 0, RefSplit(call.path))
  => /\ call.res.st = "ok"
     /\ call.res.ret = call.d
     /\ call.res.mem = call.d

\* C2's case: an in-place call whose first accessor, not the last of its path,
\* resolves to an append point (a missing intermediate key or index)
C2_Witness ==
  /\ Called({"SetInPlace"})
  /\ Len(RefSplit(call.path)) >= 2
  /\ Location(call.d, 0, Head(RefSplit(call.path))).loc = "append"
  /\ call.val # <<>>
  /\ call.res.ret = call.d

Terminal(path) == RefSplit(path)[Len(RefSplit(path))]
WithTerminal(path, acc) == SubSeq(path, 1, Len(path) - Len(Terminal(path))) \o acc
Quoted(acc) == <<"\"">> \o acc \o <<"\"", ":">>
Comma(n) == IF n > 0 THEN <<",">> ELSE <<>>
Spaces(n) == [k \in 1..n |-> " "]
Bracketed(val) == <<"[">> \o val \o <<"]">>
Null == <<"n", "u", "l", "l">>
Encodings == {marshal(obj) : obj \in Values}

\* the Location of the value the accessors before the terminal one address
RefPrefix(d, path) ==
  LET accs == RefSplit(path)
  IN IF Len(accs) = 1 THEN RefLoc("found", "none", 0, Len(d), 0)
     ELSE RefWalk(d, 0, SubSeq(accs, 1, Len(accs) - 1))

\* the number of elements of the array at offset o, -1 if there is none
ArrayLenAt(d, o) ==
  IF o >= 0 /\ At(d, RefWs(d, o)) = "[" THEN Len(RefItems(d, RefWs(d, o)).items) ELSE -1

\* C3: where the path prefix addresses an object with no member named by the
\* terminal accessor, Set inserts "<accessor>": + encode(v) just before that
\* object's closing brace, preceded by a comma exactly when the object is
\* non-empty, and changes nothing else (Set({}, "foo", 3) is {"foo":3}),
\* however long the accessor is compared with the remaining document.
C3_ObjectKeyAppend ==
  Called({"Set"}) /\ call.path # <<>> =>
    LET r == RefResolve(call.d, call.path)
    IN r.loc = "append" /\ r.in = "object" =>
         /\ call.res.st = "ok"
         /\ call.res.ret =
              Splice(call.d, r.off, r.off,
                     Comma(r.n) \o Quoted(Terminal(call.path)) \o call.val)

\* C4: where the path prefix addresses an array of length L, Set with a
\* terminal index n < L replaces element n, with n = L inserts encode(v) just
\* before the closing bracket, preceded by a comma exactly when the array is
\* non-empty, and with n > L returns the document unchanged.
C4_ArrayIndexSemantics ==
  Called({"Set"}) /\ call.path # <<>> =>
    LET pre == RefPrefix(call.d, call.path)
        L == ArrayLenAt(call.d, pre.off)
        n == Decimal(Terminal(call.path))
        r == RefResolve(call.d, call.path)
    IN pre.loc = "found" /\ L >= 0 /\ IsIndex(Terminal(call.path)) =>
         /\ call.res.st = "ok"
         /\ n < L => call.res.ret = Splice(call.d, r.off, r.end, call.val)
         /\ n = L => call.res.ret = Splice(call.d, r.off, r.off, Comma(L) \o call.val)
         /\ n > L => call.res.ret = call.d

\* C5: where the path prefix addresses a null and the terminal accessor is
\* "0", Set replaces exactly the 4 bytes of null with [ + encode(v) + ] and
\* leaves every other byte; SetInPlace writes the same text into the original
\* storage, padded with spaces to 4 bytes, exactly when len(encode(v)) + 2 <= 4,
\* and otherwise yields the allocated result.
C5_NullPromotion ==
  Called({"Set", "SetInPlace"}) /\ call.path # <<>> =>
    LET r == RefResolve(call.d, call.path)
        promoted == Bracketed(call.val)
        fits == Len(promoted) <= 4
    IN r.loc = "null" =>
         /\ call.res.st = "ok"
         /\ call.op = "Set" \/ ~fits =>
              /\ call.res.ret = Splice(call.d, r.off, r.end, promoted)
              /\ ~call.res.shared
              /\ call.res.mem = call.d
         /\ call.op = "SetInPlace" /\ fits =>
              /\ call.res.ret =
                   Splice(call.d, r.off, r.end, promoted \o Spaces(4 - Len(promoted)))
              /\ call.res.shared
              /\ call.res.mem = call.res.ret

\* C6: where the path addresses an existing value of d (the empty path the
\* whole of d) and encode(v) is no longer than that value's span, SetInPlace
\* returns a buffer of d's length in d's storage, the old span holding
\* encode(v) followed only by spaces and every other byte unchanged; and no
\* in-place call returns a buffer shorter than its input.
C6_InPlaceFit ==
  /\ Called({"SetInPlace"}) =>
       LET r == RefResolve(call.d, call.path)
           span == r.end - r.off
       IN r.loc = "found" /\ Len(call.val) <= span =>
            /\ call.res.st = "ok"
            /\ Len(call.res.ret) = Len(call.d)
            /\ call.res.shared
            /\ call.res.mem = call.res.ret
            /\ call.res.ret =
                 Splice(call.d, r.off, r.end, call.val \o Spaces(span - Len(call.val)))
  /\ Called({"SetInPlace", "SetRawInPlace"}) /\ call.res.st = "ok" =>
       Len(call.res.ret) >= Len(call.d)

\* C7 as stated: after Set returns, every byte of d is what it was before the
\* call, on all branches, and the returned buffer is freshly allocated storage
\* that does not alias d.
C7_SetFreshResult ==
  call.op = "Set" /\ call.res.st = "ok" =>
    /\ call.res.mem = call.d
    /\ ~call.res.shared

\* C7 amended: after Set returns, every byte of d is what it was before the
\* call, on all branches; the returned buffer is fresh storage except when the
\* accessor loop rejects the path, as it does every malformed path: then the
\* returned slice is d itself.
C7_SetReadOnly ==
  call.op = "Set" /\ call.res.st = "ok" =>
    /\ call.res.mem = call.d
    /\ call.res.shared <=> call.res.branch = "malformed"
    /\ call.res.shared => call.res.ret = call.d
    /\ call.path # <<>> /\ Malformed(call.d, 0, RefSplit(call.path)) => call.res.shared

\* C7's case: Set returned from a malformed path, handing back its argument
C7_Witness ==
  /\ call.op = "Set" /\ call.res.st = "ok"
  /\ call.path # <<>> /\ Malformed(call.d, 0, RefSplit(call.path))
  /\ call.res.shared
  /\ call.res.ret = call.d

\* Set(d1, path, v) for an encoding val of v
SetAgain(d1, path, val) == rewritePath(d1, Len(d1), path, val, FALSE)

\* C8: for a valid path whose terminal accessor is an array index (an existing
\* index, the append index equal to the array's length, or "0" on null),
\* Set(Set(d, p, v), p, v) = Set(d, p, v).
C8_IndexSetIdempotent ==
  Called({"Set"}) /\ call.path # <<>> =>
    LET r == RefResolve(call.d, call.path)
    IN r.in \in {"array", "null"} /\ r.loc \in {"found", "append", "null"} =>
         /\ call.res.st = "ok"
         /\ SetAgain(call.res.ret, call.path, call.val).st = "ok"
         /\ SetAgain(call.res.ret, call.path, call.val).ret = call.res.ret

\* the Location the accessors accs lead to from cursor o, as the accessor loop
\* of rewritePath follows them
RECURSIVE Walk(_, _, _)
Walk(d, o, accs) ==
  Bind(Location(d, o, Head(accs)), LAMBDA l :
    IF Len(accs) = 1 THEN l
    ELSE IF l.loc = "found" THEN Walk(d, l.off, Tail(accs))
    ELSE [loc |-> "none", off |-> o])

\* C9: for a valid path (its terminal accessor resolving to found, append or
\* null-append), resolving the path in Set(d, p, x) locates a value whose span,
\* as skip-value consumes it, is encode(x) exactly.
C9_LocateAfterSet ==
  Called({"Set"}) /\ call.path # <<>> =>
    LET r == RefResolve(call.d, call.path)
        d1 == call.res.ret
        l == Walk(d1, 0, RefSplit(call.path))
    IN r.loc \in {"found", "append", "null"} =>
         /\ call.res.st = "ok"
         /\ l.loc = "found"
         /\ Slice(d1, l.off, l.off + SkipSpan(d1, l.off)) = call.val

\* Set(d, "arr.n", v1) appended v1 to an array of n elements
Appended ==
  /\ Called({"Set"}) /\ call.path # <<>> /\ call.res.st = "ok"
  /\ LET r == RefResolve(call.d, call.path)
     IN /\ r.loc = "append" /\ r.in = "array"
        /\ call.res.ret = Splice(call.d, r.off, r.off, Comma(r.n) \o call.val)

AnyCall == {"Set", "SetInPlace", "SetRawInPlace"}

\* C16: for a path of two or more segments whose non-terminal accessors all
\* resolve to found and whose terminal accessor resolves to found, append or
\* null-append, rewritePath applies the change: the "only the last accessor
\* may append" check looks at the byte the current accessor was located at, so
\* no byte elsewhere in the document has such a path rejected.
C16_PathAcceptance ==
  Called(AnyCall) /\ Len(RefSplit(call.path)) >= 2 =>
    (RefResolve(call.d, call.path).loc \in {"found", "append", "null"} =>
       /\ call.res.st = "ok"
       /\ call.res.branch \in {"inplace", "alloc"})

\* C17: rewritePath with inPlace = true equals rewritePath with inPlace =
\* false, except that when the in-place fast path is taken the replaced span
\* is followed by exactly (old span length - new length) spaces; for found
\* values of every kind, for append and null-append targets, and for empty val.
C17_ModesAgree ==
  Called({"SetRawInPlace"}) /\ call.path # <<>> =>
    LET alloc == rewritePath(call.d, call.cap, call.path, call.val, FALSE)
        r == RefResolve(call.d, call.path)
        old == IF r.loc = "append" THEN 0 ELSE r.end - r.off
        new == Len(call.val) + (IF r.loc = "null" THEN 2 ELSE 0)
    IN /\ call.res.st = alloc.st
       /\ call.res.branch # "inplace" => call.res.ret = alloc.ret
       /\ call.res.branch = "inplace" =>
            call.res.ret = Splice(alloc.ret, r.off + new, r.off + new, Spaces(old - new))

\* C19: every call completes normally on every path string, paths with empty
\* segments (".", "a..b", "foo.") included: the accessor loop of rewritePath
\* ends and a buffer is returned, with no slice or index out of range.
C19_EveryPathCompletes ==
  Called(AnyCall) => call.res.st = "ok"

\* C11: on a null value only the accessor "0" is legal: for every other
\* accessor ("1", "foo", "00", "+0", "-0") locating it in the null yields
\* not-found, and Set, SetInPlace and SetRawInPlace return the document
\* unchanged.
C11_NullOnlyZero ==
  call.op \in AnyCall /\ call.path # <<>> /\ WellFormed(call.d) =>
    LET pre == RefPrefix(call.d, call.path)
        acc == Terminal(call.path)
    IN /\ pre.loc = "found"
       /\ RefLiteralEnd(call.d, RefWs(call.d, pre.off), Null) # -1
       /\ acc # <<"0">>
       => /\ Location(call.d, pre.off, acc).loc = "none"
          /\ call.res.st = "ok"
          /\ call.res.ret = call.d
          /\ call.res.mem = call.d

\* C12: for every byte sequence given as the document (empty, truncated or
\* otherwise malformed JSON included) and every path, no scanner, locator or
\* rewriter step indexes outside the buffer, and every scan is bounded by the
\* buffer's length: no call panics on an index or slice out of range, and
\* none scans without end.
C12_BoundsSafety ==
  call.op \in AnyCall => call.res.st \notin {"panic", "hang"}

\* {"name":{"first":"Sara","last":"Anderson"}}
ReadmeSaraFirst ==
  <<"{", "\"", "n", "a", "m", "e", "\"", ":", "{", "\"", "f", "i", "r", "s",
    "t", "\"", ":", "\"", "S", "a", "r", "a", "\"", ",", "\"", "l", "a", "s",
    "t", "\"", ":", "\"", "A", "n", "d", "e", "r", "s", "o", "n", "\"", "}",
    "}">>

\* {"name":{"last":"Anderson","first":"Sara"}}
ReadmeSaraLast ==
  <<"{", "\"", "n", "a", "m", "e", "\"", ":", "{", "\"", "l", "a", "s", "t",
    "\"", ":", "\"", "A", "n", "d", "e", "r", "s", "o", "n", "\"", ",", "\"",
    "f", "i", "r", "s", "t", "\"", ":", "\"", "S", "a", "r", "a", "\"", "}",
    "}">>

NumberRun(s) ==
  Bind(Index(s, LAMBDA c : ~IsNumberByte(c)), LAMBDA k : IF k = -1 THEN Len(s) ELSE k)

\* C14 as stated: for every well-formed JSON value w followed by any suffix
\* s, consumeValue(w ++ s) returns exactly s; braces, brackets and escaped
\* quotes inside strings never change the depth skip-object and skip-array
\* count, however objects and arrays are nested.
C14_SkipValueAnySuffix ==
  call.op = "consumeValue" =>
    /\ call.res.st = "ok"
    /\ call.res.ret = call.val

\* C14 amended: for every well-formed JSON value w followed by a suffix s,
\* consumeValue(w ++ s) returns exactly s when w is an object, an array, a
\* string, true, false or null; when w is a number it returns s without the
\* bytes 0-9 + - . e E that s begins with, which skip-number takes with w.
C14_SkipValueAgrees ==
  call.op = "consumeValue" =>
    /\ call.res.st = "ok"
    /\ call.res.ret =
         IF call.d[1] \in {"{", "[", "\"", "t", "f", "n"} THEN call.val
         ELSE From(call.val, NumberRun(call.val))

\* C14's case: a nested container holding a string with an escape in it has
\* been skipped, a suffix following it
C14_Witness ==
  /\ call.op = "consumeValue"
  /\ call.d[1] \in {"{", "["}
  /\ \E k \in 1..Len(call.d) : call.d[k] = "\\"
  /\ \E k \in 2..Len(call.d) : call.d[k] \in {"{", "["}
  /\ call.val # <<>>
  /\ call.res.ret = call.val

\* C15: whenever locateAccessor on a well-formed object returns a found
\* offset for accessor a, that offset is the first byte of the value of the
\* first top-level member whose raw key bytes equal a byte for byte; nested
\* keys, text in string values and keys differing by escaping never match, and
\* a string whose content looks like an object is a scalar (not-found).
C15_ExactTopLevelKey ==
  call.op = "locateAccessor" =>
    LET found == call.res.off # -1 /\ At(call.d, call.res.off) # "}"
        ref == RefLocate(call.d, 0, call.path)
    IN /\ call.res.st = "ok"
       /\ call.d[1] = "{" /\ found =>
            /\ ref.loc = "found" /\ ref.in = "object"
            /\ ref.off = call.res.off
       /\ call.d[1] = "\"" => call.res.off = -1

\* C15's case: a key that also occurs nested, as a string value and under
\* another escaping has been located at its first top-level member
C15_Witness ==
  /\ call.op = "locateAccessor"
  /\ call.path = <<"a">>
  /\ call.res.st = "ok" /\ call.res.off > 0
  /\ At(call.d, call.res.off) = "5"

(***************************************************************************)
(* C18: starting from a well-formed document, after any sequence of Set,   *)
(* SetInPlace and SetRawInPlace calls with well-formed values and path     *)
(* segments free of quotes and backslashes, the document the caller holds  *)
(* is still well-formed JSON                                               *)
(***************************************************************************)
C18_WellFormedPreserved ==
  WellFormed(json)

====
